---- MODULE Spec2Model ----
(***************************************************************************)
(* Model of rs-pi-server's session / process-management core:              *)
(*   src/src/circular_buffer.rs  CircularBuffer<N>                         *)
(*   src/src/command_runner.rs   ClientSession and its background reader   *)
(*   src/src/pterminal.rs        PseudoTerminal / TermReader               *)
(*   src/src/client.rs           Client::run and the rspi pool commands    *)
(*                                                                         *)
(* Six specifications share the definitions:                               *)
(*   SpecBuf      one CircularBuffer driven through its public API         *)
(*   SpecSession  one ClientSession driven through its public API          *)
(*   SpecReader   one ClientSession's output path under a polling owner    *)
(*   SpecTeardown SpecReader followed by kill() and close(), scheduled     *)
(*   Spec         connections (Client::run) over the shared process pool   *)
(*   SpecLocks    the same, with each lock acquisition a step of its own   *)
(***************************************************************************)
EXTENDS Integers, Sequences, FiniteSets, TLC

\* ------------------------------------------------------------------ bounds
\* Capacity N of the ring buffer (4096 in command_runner.rs, scaled down).
BufN == 3
\* Longest slice handed to one CircularBuffer write or read call.
MaxSlice == 4
\* Bytes handed to CircularBuffer::write over one run of SpecBuf.
MaxWritten == 7
\* ClientSession values constructed over one run.
MaxSessions == 3
\* Child processes spawned over one run.
MaxProcs == 2
\* Bytes the children write to the pty over one run of SpecReader.
MaxOut == 5
\* Bytes the children write to the pty over one run of SpecSession.
SessOut == 1
\* Connections accepted over one run of Spec.
MaxClients == 2
\* Bytes the children write to ptys over one run of Spec.
PoolOut == 1
MaxMsgs == 3
PoolProcs == 1

Min(a, b) == IF a < b THEN a ELSE b

\* ------------------------------------------------------- CircularBuffer<N>
\* &data[from..to]
Slice(data, from, to) == [i \in 1..(to - from) |-> data[from + i - 1]]

\* data[at..at+src.len()].copy_from_slice(src)
copy_from_slice(data, at, src) ==
  [i \in DOMAIN data |->
     IF i >= at /\ i < at + Len(src) THEN src[i - at + 1] ELSE data[i]]

CircularBuffer_new ==
  [data |-> [i \in 0..(BufN - 1) |-> 0], head |-> 0, len |-> 0]

CircularBuffer_is_empty(self) == self.len = 0

CircularBuffer_len(self) == self.len

allocated_size == BufN

\* write_to: the sink `to` is a growable byte sequence whose write_all succeeds.
CircularBuffer_write_to(self, to) ==
  LET first  == Slice(self.data, self.head, Min(BufN, self.head + self.len))
      second == IF self.head + self.len > BufN
                THEN Slice(self.data, 0, self.len)
                ELSE << >>
  IN  [self |-> [self EXCEPT !.head = (self.head + self.len) % BufN, !.len = 0],
       to   |-> to \o first \o second]

\* Mutant of read: the wrapped part is copied from behind the first part
\* instead of from the start of the backing array.
CircularBuffer_read_no_wrap(self, n) ==
  IF self.len = 0
  THEN [self |-> self, buf |-> << >>, res |-> "WouldBlock"]
  ELSE
    LET size       == Min(self.len, n)
        first_half == Min(size, BufN - self.head)
        part1      == Slice(self.data, self.head, self.head + first_half)
        part2      == IF first_half < size
                      THEN Slice(self.data, first_half, size)
                      ELSE << >>
    IN  [self |-> [self EXCEPT !.len = self.len - size,
                               !.head = (self.head + size) % BufN],
         buf  |-> part1 \o part2,
         res  |-> "Ok"]

\* read into a slice of n bytes; buf is the part of the slice that was filled.
CircularBuffer_read(self, n) ==
  IF CircularBuffer_is_empty(self)
  THEN [self |-> self, buf |-> << >>, res |-> "WouldBlock"]
  ELSE
    LET size       == Min(self.len, n)
        first_half == Min(size, BufN - self.head)
        part1      == Slice(self.data, self.head, self.head + first_half)
        part2      == IF first_half < size
                      THEN Slice(self.data, 0, size - first_half)
                      ELSE << >>
    IN  [self |-> [self EXCEPT !.len = self.len - size,
                               !.head = (self.head + size) % BufN],
         buf  |-> part1 \o part2,
         res  |-> "Ok"]

\* Mutant of write: the new length is the size of this write alone, whatever
\* was pending.
CircularBuffer_write_forgets_len(self, buf) ==
  LET tail       == (self.head + self.len) % BufN
      size       == Min(BufN, Len(buf))
      first_half == Min(size, BufN - tail)
      data1      == copy_from_slice(self.data, tail, SubSeq(buf, 1, first_half))
      data2      == IF first_half < size
                    THEN copy_from_slice(data1, 0, SubSeq(buf, first_half + 1, size))
                    ELSE data1
  IN  [self |-> [self EXCEPT !.data = data2, !.len = size],
       res  |-> size]

CircularBuffer_write(self, buf) ==
  LET tail       == (self.head + self.len) % BufN
      size       == Min(BufN, Len(buf))
      first_half == Min(size, BufN - tail)
      data1      == copy_from_slice(self.data, tail, SubSeq(buf, 1, first_half))
      data2      == IF first_half < size
                    THEN copy_from_slice(data1, 0, SubSeq(buf, first_half + 1, size))
                    ELSE data1
  IN  [self |-> [self EXCEPT !.data = data2, !.len = Min(BufN, self.len + size)],
       res  |-> size]

\* Mutant of read_output: drains without looking whether there is anything.
read_output_unchecked(output, to) ==
  LET w == CircularBuffer_write_to(output, to)
  IN  [output |-> w.self, to |-> w.to, res |-> "Ok"]

\* ClientSession::read_output touches only self.output and the sink.  The
\* buffer mutex cannot be poisoned: no code panics while holding it.
read_output(output, to) ==
  IF ~CircularBuffer_is_empty(output)
  THEN LET w == CircularBuffer_write_to(output, to)
       IN  [output |-> w.self, to |-> w.to, res |-> "Ok"]
  ELSE [output |-> output, to |-> to, res |-> "UnexpectedEof"]

\* ---------------------------------------------------------- ClientSession
\* Session ids 1..MaxSessions name ClientSession values; a value is moved,
\* never copied, so an id stands for one pty, one reader and one buffer.
\* Process ids 1..MaxProcs name the children spawned; 0 is Option::None.
SessionIds == 1..MaxSessions
Pids == 1..MaxProcs
CmdNames == {"sleep", "echo"}
Dirs == {"/", "/a"}
Locs == {"a", ".."}

\* self.path.join(loc).canonicalize() on a file system holding / and /a:
\* the canonical path, or "Err" when the target does not exist.
canonicalize(path, loc) ==
  CASE loc = ".." -> "/"
    [] loc = "a" /\ path = "/" -> "/a"
    [] OTHER -> "Err"

\* A slot of the session table that holds no ClientSession yet.
NoSession ==
  [st |-> "none", cmd_name |-> "None", process |-> 0, path |-> "/", stdin |-> 0,
   output |-> CircularBuffer_new, is_running |-> FALSE, outputting |-> FALSE,
   reader |-> "none", buf |-> << >>, flushed |-> "none", lock |-> "free",
   pty |-> << >>]

\* ClientSession::new with PseudoTerminal::new succeeding: the reader thread
\* is spawned and has not run its first statement yet.
ClientSession_new(from_path) ==
  [NoSession EXCEPT !.st = "live", !.path = from_path, !.reader = "start"]

NoProcess == [st |-> "none", tty |-> 0]

\* Connections 1..MaxClients; a slot that no connection has used yet.
ClientIds == 1..MaxClients
NoClient == [st |-> "none", session |-> 0, running_process |-> FALSE, old |-> 0]

\* Child::try_wait: 0 for Ok(None); the exit status (named by the pid) once the
\* child has terminated, which reaps it.
try_wait(w, pid) ==
  IF w.procs[pid].st = "running"
  THEN [w |-> w, status |-> 0]
  ELSE [w |-> [w EXCEPT !.procs[pid].st = "reaped"], status |-> pid]

FreePids(w) == {p \in Pids : w.procs[p].st = "none"}
NextPid(w) == CHOOSE p \in FreePids(w) : \A q \in FreePids(w) : p <= q

\* Mutant of change_dir: the joined path is taken without canonicalize, so a
\* missing directory is not noticed.
change_dir_unresolved(w, s, loc) ==
  [w |-> [w EXCEPT !.sessions[s].path = "/a"], res |-> "Ok"]

\* ClientSession::change_dir
change_dir(w, s, loc) ==
  LET p == canonicalize(w.sessions[s].path, loc)
  IN  IF p = "Err"
      THEN [w |-> w, res |-> "Err"]
      ELSE [w |-> [w EXCEPT !.sessions[s].path = p], res |-> "Ok"]

\* Mutant of run_command: a running process is treated like an exited one.
run_command_not_busy(w, s, cmd, spawn_ok) ==
  LET w1 == [w EXCEPT !.sessions[s].process = 0]
  IN
    IF cmd.name = ""
    THEN [w |-> w1, res |-> "empty", status |-> 0]
    ELSE IF cmd.name = "cd"
    THEN LET c == change_dir(w1, s, cmd.arg)
         IN  IF c.res = "Err"
             THEN [w |-> c.w, res |-> "cd-failed", status |-> 0]
             ELSE [w |-> c.w, res |-> "Ok", status |-> 0]
    ELSE IF ~spawn_ok
    THEN [w |-> w1, res |-> "spawn-failed", status |-> 0]
    ELSE LET pid == NextPid(w1)
         IN  [w |-> [w1 EXCEPT !.procs[pid] = [st |-> "running", tty |-> s],
                               !.sessions[s].stdin = pid,
                               !.sessions[s].process = pid,
                               !.sessions[s].cmd_name = cmd.name],
              res |-> "Ok", status |-> 0]

\* ClientSession::run_command.  cmd is [name, arg]: the first word of the
\* line ("" for an empty or blank line) and the rest; spawn_ok is whether the
\* OS can spawn the executable.  res is Ok, busy, empty, cd-failed or
\* spawn-failed; status the prior exit status handed back with Ok.
run_command(w, s, cmd, spawn_ok) ==
  LET self == w.sessions[s]
      tw   == IF self.process # 0 THEN try_wait(w, self.process)
              ELSE [w |-> w, status |-> 0]
  IN
  IF self.process # 0 /\ tw.status = 0
  THEN [w |-> w, res |-> "busy", status |-> 0]
  ELSE
    LET w1 == [tw.w EXCEPT !.sessions[s].process = 0]
        last_status == tw.status
    IN
    IF cmd.name = ""
    THEN [w |-> w1, res |-> "empty", status |-> 0]
    ELSE IF cmd.name = "cd"
    THEN LET c == change_dir(w1, s, cmd.arg)
         IN  IF c.res = "Err"
             THEN [w |-> c.w, res |-> "cd-failed", status |-> 0]
             ELSE [w |-> c.w, res |-> "Ok", status |-> last_status]
    ELSE IF ~spawn_ok
    THEN [w |-> w1, res |-> "spawn-failed", status |-> 0]
    ELSE LET pid == NextPid(w1)
         IN  [w |-> [w1 EXCEPT !.procs[pid] = [st |-> "running", tty |-> s],
                               !.sessions[s].stdin = pid,
                               !.sessions[s].process = pid,
                               !.sessions[s].cmd_name = cmd.name],
              res |-> "Ok", status |-> last_status]

\* ClientSession::set_is_outputting
set_is_outputting(w, s, val) == [w EXCEPT !.sessions[s].outputting = val]

\* ClientSession::set_running_status
set_running_status(w, s, val) == [w EXCEPT !.sessions[s].is_running = val]

\* Mutant of kill: the child is left running.
kill_spares_child(w, s) == w

\* Mutant of kill: the session's reader is stopped along with the child.
kill_stops_reader(w, s) ==
  LET pid == w.sessions[s].process
  IN  IF pid # 0
      THEN [w EXCEPT !.procs[pid].st = IF @ = "running" THEN "zombie" ELSE @,
                     !.sessions[s].is_running = FALSE,
                     !.sessions[s].reader = "done"]
      ELSE w

\* ClientSession::kill: Child::kill sends SIGKILL, which succeeds on a running
\* child and on one that has terminated but was not waited for.
kill(w, s) ==
  LET pid == w.sessions[s].process
  IN  IF pid # 0
      THEN set_running_status(
             [w EXCEPT !.procs[pid].st = IF @ = "running" THEN "zombie" ELSE @],
             s, FALSE)
      ELSE w

\* ClientSession::signal: runs `kill -s sig pid`; fatal is whether the signal
\* terminates the child.
signal(w, s, fatal) ==
  LET pid == w.sessions[s].process
  IN  IF pid # 0
      THEN [w |-> [w EXCEPT !.procs[pid].st =
                      IF @ = "running" /\ fatal THEN "zombie" ELSE @],
            res |-> "Ok"]
      ELSE [w |-> w, res |-> "no-process"]

\* Mutant of exit_status: the status is returned but the slot is kept.
exit_status_keep(w, s) ==
  LET pid == w.sessions[s].process
  IN  IF pid # 0
      THEN LET tw == try_wait(w, pid) IN [w |-> tw.w, status |-> tw.status]
      ELSE [w |-> w, status |-> 0]

\* ClientSession::exit_status
exit_status(w, s) ==
  LET pid == w.sessions[s].process
  IN  IF pid # 0
      THEN LET tw == try_wait(w, pid)
           IN  IF tw.status # 0
               THEN [w |-> [tw.w EXCEPT !.sessions[s].process = 0],
                     status |-> tw.status]
               ELSE [w |-> w, status |-> 0]
      ELSE [w |-> w, status |-> 0]

\* ClientSession::has_child / is_running
has_child(self) == self.process # 0
is_running(self) == self.is_running

\* ClientSession::write_stdin: the pipe of a child that is gone gives EPIPE.
write_stdin(w, s) ==
  LET h == w.sessions[s].stdin
  IN  IF h # 0
      THEN IF w.procs[h].st = "running" THEN [res |-> "Ok", to |-> h]
           ELSE [res |-> "BrokenPipe", to |-> 0]
      ELSE [res |-> "BrokenPipe", to |-> 0]

\* ------------------------------------------------------------------ state
VARIABLES
  cb,       \* SpecBuf: the CircularBuffer under test
  cbLast,   \* SpecBuf: the last call: [op, n, res, out, before]
  cbEpoch,  \* SpecBuf: history since the buffer was last empty before a write
  cbCount,  \* SpecBuf: bytes handed to write so far (byte k has value k)
  sessions, \* session id -> ClientSession (with its pty, reader and buffer)
  procs,    \* pid -> child process: [st, tty]
  emitted,  \* bytes the children have written to ptys (byte k has value k)
  sink,     \* SpecSession: the bytes read_output has written to its sink
  caller,   \* SpecSession: where the thread that owns the session is
  last,     \* the last call or handled message: [op, arg, res, status, tick]
  pool,     \* Spec: the process pool, a sequence of session ids
  poolLock, \* Spec: 0, the client holding the pool mutex, or -1 once poisoned
  clients   \* Spec: client id -> [st, session, running_process, old]

bufVars == <<cb, cbLast, cbEpoch, cbCount>>
poolVars == <<pool, poolLock, clients>>
sessVars == <<sessions, procs, emitted, sink, caller, last, poolVars>>
vars == <<cb, cbLast, cbEpoch, cbCount, sessions, procs, emitted, sink, caller,
          last, pool, poolLock, clients>>

World ==
  [sessions |-> sessions, procs |-> procs, pool |-> pool, poolLock |-> poolLock,
   clients |-> clients]
Commit(w) ==
  /\ sessions' = w.sessions
  /\ procs' = w.procs
  /\ pool' = w.pool
  /\ poolLock' = w.poolLock
  /\ clients' = w.clients

\* ------------------------------------------------------------ SpecBuf
\* History of one fill-and-drain episode: wr the bytes write accepted, rd the
\* bytes the drains returned, kinds the drain calls used, mixed whether a
\* write came after a drain had begun.
NewEpoch == [wr |-> << >>, rd |-> << >>, kinds |-> {}, mixed |-> FALSE]

InitCB ==
  /\ cb = CircularBuffer_new
  /\ cbLast = [op |-> "new", n |-> 0, res |-> "Ok", out |-> << >>,
               before |-> CircularBuffer_new]
  /\ cbEpoch = NewEpoch
  /\ cbCount = 0

NoCall == [op |-> "none", arg |-> "", res |-> "", status |-> 0, tick |-> 0]

\* Nothing constructed yet.
InitIdle ==
  /\ sessions = [s \in SessionIds |-> NoSession]
  /\ procs = [p \in Pids |-> NoProcess]
  /\ emitted = 0
  /\ sink = << >>
  /\ caller = "idle"
  /\ last = NoCall
  /\ pool = << >>
  /\ poolLock = 0
  /\ clients = [c \in ClientIds |-> NoClient]

InitBuf == InitCB /\ InitIdle

\* The n bytes after the first k: k+1, ..., k+n.
FreshBytes(k, n) == [i \in 1..n |-> k + i]

BufWrite(n) ==
  /\ cbCount + n <= MaxWritten
  /\ LET buf == FreshBytes(cbCount, n)
         w   == CircularBuffer_write(cb, buf)
     IN  /\ cb' = w.self
         /\ cbLast' = [op |-> "write", n |-> n, res |-> w.res, out |-> << >>,
                       before |-> cb]
         /\ cbEpoch' = IF cb.len = 0
                       THEN [NewEpoch EXCEPT !.wr = SubSeq(buf, 1, w.res)]
                       ELSE [cbEpoch EXCEPT !.wr = @ \o SubSeq(buf, 1, w.res),
                                            !.mixed = @ \/ cbEpoch.kinds # {}]
         /\ cbCount' = cbCount + n
         /\ UNCHANGED sessVars

BufRead(n) ==
  LET r == CircularBuffer_read(cb, n)
  IN  /\ cb' = r.self
      /\ cbLast' = [op |-> "read", n |-> n, res |-> r.res, out |-> r.buf,
                    before |-> cb]
      /\ cbEpoch' = [cbEpoch EXCEPT !.rd = @ \o r.buf, !.kinds = @ \cup {"read"}]
      /\ UNCHANGED <<cbCount, sessVars>>

BufWriteTo ==
  LET w == CircularBuffer_write_to(cb, << >>)
  IN  /\ cb' = w.self
      /\ cbLast' = [op |-> "write_to", n |-> 0, res |-> "Ok", out |-> w.to,
                    before |-> cb]
      /\ cbEpoch' = [cbEpoch EXCEPT !.rd = @ \o w.to, !.kinds = @ \cup {"write_to"}]
      /\ UNCHANGED <<cbCount, sessVars>>

BufReadOutput ==
  LET r == read_output(cb, << >>)
  IN  /\ cb' = r.output
      /\ cbLast' = [op |-> "read_output", n |-> 0, res |-> r.res, out |-> r.to,
                    before |-> cb]
      /\ cbEpoch' = [cbEpoch EXCEPT !.rd = @ \o r.to,
                                    !.kinds = @ \cup {"read_output"}]
      /\ UNCHANGED <<cbCount, sessVars>>

NextBuf ==
  \/ \E n \in 0..MaxSlice : BufWrite(n)
  \/ \E n \in 0..MaxSlice : BufRead(n)
  \/ BufWriteTo
  \/ BufReadOutput

SpecBuf == InitBuf /\ [][NextBuf]_vars

\* ------------------------------------------- background reader and children
\* The thread of spawn_buf_reader for session s.  reader is its place:
\*   start   spawned, nothing run yet
\*   read    at src.read(&mut byte)
\*   flush   a byte was pushed to buf, about to lock the output buffer
\*   locked  holds the output lock, about to test the policy and write
\*   done    saw end-of-data and left the loop

\* Children that still hold the slave end of session s's pty.
Writers(s) == {p \in Pids : procs[p].st = "running" /\ procs[p].tty = s}

\* is_running.store(true) at thread start.
ReaderStart(s) ==
  /\ sessions[s].reader = "start"
  /\ sessions' = [sessions EXCEPT ![s].is_running = TRUE, ![s].reader = "read"]

\* src.read returns one byte, or end-of-data (TermReader::read: EIO once
\* every slave handle is closed and the pty is drained).
ReaderRead(s) ==
  /\ sessions[s].reader = "read"
  /\ IF sessions[s].pty # << >>
     THEN sessions' = [sessions EXCEPT ![s].buf = Append(@, Head(sessions[s].pty)),
                                       ![s].pty = Tail(@),
                                       ![s].reader = "flush"]
     ELSE /\ sessions[s].st # "live"
          /\ Writers(s) = {}
          /\ sessions' = [sessions EXCEPT ![s].is_running = FALSE,
                                          ![s].reader = "done"]

\* TermReader::read when the terminal was destroyed before the read began:
\* Weak::upgrade fails and the read is end-of-data at once.
ReaderEofGone(s) ==
  /\ sessions[s].reader = "read"
  /\ sessions[s].st # "live"
  /\ sessions' = [sessions EXCEPT ![s].is_running = FALSE, ![s].reader = "done"]

\* Mutant of the reader's flush: it goes on to the buffer whether or not it
\* got the lock.
ReaderFlush_unlocked(s) ==
  /\ sessions[s].reader = "flush"
  /\ sessions' = [sessions EXCEPT ![s].lock = "reader", ![s].reader = "locked"]

\* out.lock() once buf holds more than a buffer's worth (waits for the lock),
\* out.try_lock() otherwise (WouldBlock when the lock is taken).
ReaderFlush(s) ==
  /\ sessions[s].reader = "flush"
  /\ IF sessions[s].lock = "free"
     THEN sessions' = [sessions EXCEPT ![s].lock = "reader", ![s].reader = "locked"]
     ELSE /\ Len(sessions[s].buf) <= allocated_size
          /\ sessions' = [sessions EXCEPT ![s].reader = "read",
                                          ![s].flushed = "would-block"]

\* Mutant of the reader's policy test: the outputting flag is not consulted.
MayWrite_always(self) == TRUE

\* `!is_outputting.load() || output.len() + buf.len() <= output.allocated_size()`
MayWrite(self) ==
  \/ ~self.outputting
  \/ CircularBuffer_len(self.output) + Len(self.buf) <= allocated_size

\* With the lock held: write buf and clear it if the policy allows, then
\* unlock and go back to reading.
ReaderWrite(s) ==
  /\ sessions[s].reader = "locked"
  /\ IF MayWrite(sessions[s])
     THEN sessions' = [sessions EXCEPT
             ![s].output = CircularBuffer_write(@, sessions[s].buf).self,
             ![s].buf = << >>,
             ![s].flushed = "wrote",
             ![s].lock = "free",
             ![s].reader = "read"]
     ELSE sessions' = [sessions EXCEPT
             ![s].flushed = "no-room",
             ![s].lock = "free",
             ![s].reader = "read"]

Reader(s) ==
  /\ \/ ReaderStart(s)
     \/ ReaderRead(s)
     \/ ReaderEofGone(s)
     \/ ReaderFlush(s)
     \/ ReaderWrite(s)
  /\ UNCHANGED <<procs, emitted, sink, caller, last, poolVars, bufVars>>

\* A running child writes one byte to its stdout/stderr, the slave of the pty
\* of the session that spawned it.
ChildEmit(p, max) ==
  /\ procs[p].st = "running"
  /\ emitted < max
  /\ sessions[procs[p].tty].reader # "done"
  /\ sessions' = [sessions EXCEPT ![procs[p].tty].pty = Append(@, emitted + 1)]
  /\ emitted' = emitted + 1
  /\ UNCHANGED <<procs, sink, caller, last, poolVars, bufVars>>

\* A running child terminates by itself.
ChildExit(p) ==
  /\ procs[p].st = "running"
  /\ procs' = [procs EXCEPT ![p].st = "zombie"]
  /\ UNCHANGED <<sessions, emitted, sink, caller, last, poolVars, bufVars>>

\* --------------------------------------------------------------- SpecSession
\* One ClientSession (id 1) used through its public operations by the thread
\* that owns it, in any order, beside its reader and its children.
Cmds ==
  {[name |-> "", arg |-> ""]}
  \cup {[name |-> "cd", arg |-> l] : l \in Locs}
  \cup {[name |-> n, arg |-> ""] : n \in CmdNames}

Called(op, arg, res, status) ==
  last' = [op |-> op, arg |-> arg, res |-> res, status |-> status,
           tick |-> 1 - last.tick]

InitSession ==
  /\ InitCB
  /\ sessions = [s \in SessionIds |->
                   IF s = 1 THEN ClientSession_new("/") ELSE NoSession]
  /\ procs = [p \in Pids |-> NoProcess]
  /\ emitted = 0
  /\ sink = << >>
  /\ caller = "idle"
  /\ last = NoCall
  /\ pool = << >>
  /\ poolLock = 0
  /\ clients = [c \in ClientIds |-> NoClient]

Usable == caller = "idle" /\ sessions[1].st = "live"

CallRunCommand(cmd, spawn_ok) ==
  /\ Usable
  /\ (cmd.name \in CmdNames /\ spawn_ok) => FreePids(World) # {}
  /\ LET r == run_command(World, 1, cmd, spawn_ok)
     IN  /\ Commit(r.w)
         /\ Called("run_command", cmd.name, r.res, r.status)
  /\ UNCHANGED <<emitted, sink, caller, bufVars>>

CallExitStatus ==
  /\ Usable
  /\ LET r == exit_status(World, 1)
     IN  /\ Commit(r.w)
         /\ Called("exit_status", "", "", r.status)
  /\ UNCHANGED <<emitted, sink, caller, bufVars>>

CallKill ==
  /\ Usable
  /\ Commit(kill(World, 1))
  /\ Called("kill", "", "", 0)
  /\ UNCHANGED <<emitted, sink, caller, bufVars>>

CallSignal(fatal) ==
  /\ Usable
  /\ LET r == signal(World, 1, fatal)
     IN  /\ Commit(r.w)
         /\ Called("signal", "", r.res, 0)
  /\ UNCHANGED <<emitted, sink, caller, bufVars>>

CallWriteStdin ==
  /\ Usable
  /\ LET r == write_stdin(World, 1)
     IN  Called("write_stdin", "", r.res, r.to)
  /\ UNCHANGED <<sessions, procs, emitted, sink, caller, poolVars, bufVars>>

CallSetIsOutputting(val) ==
  /\ Usable
  /\ Commit(set_is_outputting(World, 1, val))
  /\ Called("set_is_outputting", "", "", 0)
  /\ UNCHANGED <<emitted, sink, caller, bufVars>>

\* read_output, first half: self.output.lock() (waits while the reader holds it).
CallReadOutputLock ==
  /\ Usable
  /\ sessions[1].lock = "free"
  /\ sessions' = [sessions EXCEPT ![1].lock = "caller"]
  /\ caller' = "read_output"
  /\ UNCHANGED <<procs, emitted, sink, last, poolVars, bufVars>>

\* read_output, second half: drain to the sink, unlock, return.
CallReadOutputDrain ==
  /\ caller = "read_output"
  /\ LET r == read_output(sessions[1].output, sink)
     IN  /\ sessions' = [sessions EXCEPT ![1].output = r.output, ![1].lock = "free"]
         /\ sink' = r.to
         /\ Called("read_output", "", r.res, 0)
  /\ caller' = "idle"
  /\ UNCHANGED <<procs, emitted, poolVars, bufVars>>

\* close, first half: drop(self.term).
CallCloseDrop ==
  /\ Usable
  /\ sessions' = [sessions EXCEPT ![1].st = "closed"]
  /\ caller' = "closing"
  /\ UNCHANGED <<procs, emitted, sink, last, poolVars, bufVars>>

\* close, second half: handle.join() returns once the reader has ended.
CallCloseJoin ==
  /\ caller = "closing"
  /\ sessions[1].reader = "done"
  /\ caller' = "closed"
  /\ Called("close", "", "Ok", 0)
  /\ UNCHANGED <<sessions, procs, emitted, sink, poolVars, bufVars>>

NextCalls ==
  \/ \E cmd \in Cmds, ok \in BOOLEAN : CallRunCommand(cmd, ok)
  \/ CallExitStatus
  \/ CallKill
  \/ \E fatal \in BOOLEAN : CallSignal(fatal)
  \/ CallWriteStdin
  \/ \E val \in BOOLEAN : CallSetIsOutputting(val)
  \/ CallReadOutputLock
  \/ CallReadOutputDrain
  \/ CallCloseDrop
  \/ CallCloseJoin
  \/ Reader(1)
  \/ \E p \in Pids : ChildEmit(p, SessOut)
  \/ \E p \in Pids : ChildExit(p)

SpecSession == InitSession /\ [][NextCalls]_vars

\* --------------------------------------------------------------- SpecReader
\* The output path of one ClientSession: its children write, its reader
\* copies into the buffer, and the owning thread polls read_output and
\* exit_status and switches the outputting flag.  As in Client::run, a
\* command is run only while the session has no child.
NextReader ==
  \/ /\ ~has_child(sessions[1])
     /\ \E ok \in BOOLEAN : CallRunCommand([name |-> "echo", arg |-> ""], ok)
  \/ CallExitStatus
  \/ \E val \in BOOLEAN : CallSetIsOutputting(val)
  \/ CallReadOutputLock
  \/ CallReadOutputDrain
  \/ Reader(1)
  \/ \E p \in Pids : ChildEmit(p, MaxOut)
  \/ \E p \in Pids : ChildExit(p)

SpecReader == InitSession /\ [][NextReader]_vars

\* ---------------------------------------------------------------- Client
\* Messages a connection can send, by what Client::run and
\* do_rspi_process_cmds tell apart:
\*   sig      starts with "SIG"
\*   orphan   exactly "rspi orphan"
\*   orphan2  "rspi" then "orphan" in another spelling ("rspi  orphan")
\*   procs    "rspi procs"
\*   adopt    "rspi adopt <arg>": idx is the argument parsed as usize (-1 when
\*            it does not parse), name the argument otherwise ("" when there
\*            is no argument at all)
\*   help     "rspi" followed by anything else, or by nothing
\*   cmd      any other line: [name, arg] as run_command parses it
\* The command lines sent in Spec.
PoolCmds == {[name |-> "sleep", arg |-> ""]}
AdoptNames == {"sleep", "none", ""}
Msgs ==
  {[k |-> "sig"], [k |-> "orphan"], [k |-> "orphan2"], [k |-> "procs"], [k |-> "help"]}
  \cup {[k |-> "adopt", idx |-> i, name |-> ""] : i \in 0..(MaxSessions - 1)}
  \cup {[k |-> "adopt", idx |-> -1, name |-> n] : n \in AdoptNames}
  \cup {[k |-> "cmd", cmd |-> c] : c \in PoolCmds}

FreeSessions(w) == {s \in SessionIds : w.sessions[s].st = "none"}
NextSession(w) == CHOOSE s \in FreeSessions(w) : \A t \in FreeSessions(w) : s <= t

\* str::eq_ignore_ascii_case on the names in use: command names are lower
\* case, a fresh session is named "None".
eq_ignore_ascii_case(name, arg) ==
  \/ name = arg
  \/ name = "None" /\ arg = "none"

\* procs.iter().position(|proc| proc.cmd_name.eq_ignore_ascii_case(arg)):
\* the zero-based index of the first match, or -1 for None.
position(w, arg) ==
  LET hits == {i \in 1..Len(w.pool) :
                 eq_ignore_ascii_case(w.sessions[w.pool[i]].cmd_name, arg)}
  IN  IF hits = {} THEN -1
      ELSE (CHOOSE i \in hits : \A j \in hits : i <= j) - 1

\* Mutant of Vec::remove: the element is handed out but stays in the vector.
remove_keep(v, id) == v

\* Mutant of Vec::remove: the last element goes instead of the one at id.
remove_last(v, id) == SubSeq(v, 1, Len(v) - 1)

\* Vec::remove(id), for id < len: the vector without its element at id.
remove(v, id) == SubSeq(v, 1, id) \o SubSeq(v, id + 2, Len(v))

Active(w, c) == w.clients[c].session

\* What is left of a ClientSession once close has joined its reader and
\* returned: every field has been dropped.
Freed == [NoSession EXCEPT !.st = "freed", !.reader = "done"]

\* ClientSession::close, first half: drop(self.term).
close_drop(w, s) == [w EXCEPT !.sessions[s].st = "closed"]

\* Mutant of adopt: the session is taken out of the pool but the connection
\* keeps the session it had.
adopt_take_discards(w, c, id) ==
  [set_is_outputting(w, Active(w, c), FALSE) EXCEPT !.pool = remove(w.pool, id)]

\* The two successful arms of "adopt" up to old_session.close(): the handler
\* holds the pool mutex and waits in close for the old session's reader.
adopt_take(w, c, id) ==
  LET cur == Active(w, c)
      w1  == set_is_outputting(w, cur, FALSE)
      new == w1.pool[id + 1]
      w2  == [w1 EXCEPT !.pool = remove(w1.pool, id),
                        !.clients[c].session = new,
                        !.clients[c].old = cur,
                        !.clients[c].st = "join",
                        !.poolLock = c]
  IN  close_drop(w2, cur)

\* A panic in the handler thread while it holds the pool mutex: the mutex is
\* poisoned, the Client is dropped (its session is dropped without close, its
\* stream is closed) and the thread ends.
panic(w, c) ==
  [w EXCEPT !.poolLock = -1,
            !.sessions[Active(w, c)].st = "dropped",
            !.clients[c].st = "panicked",
            !.clients[c].running_process = FALSE]

\* "adopt": res is adopted (the handler is now waiting in close), not-found,
\* usage (no argument), poisoned (the mutex is poisoned: nothing is done or
\* said) or panic (Vec::remove with an index that is not in the vector).
rspi_adopt(w, c, idx, arg) ==
  IF idx = -1 /\ arg = "" THEN [w |-> w, res |-> "usage"]
  ELSE IF w.poolLock = -1 THEN [w |-> w, res |-> "poisoned"]
  ELSE IF idx # -1
  THEN IF idx < Len(w.pool)
       THEN [w |-> adopt_take(w, c, idx), res |-> "adopted"]
       ELSE [w |-> panic(set_is_outputting(w, Active(w, c), FALSE), c),
             res |-> "panic"]
  ELSE IF position(w, arg) # -1
  THEN [w |-> adopt_take(w, c, position(w, arg)), res |-> "adopted"]
  ELSE [w |-> w, res |-> "not-found"]

\* Mutant of "orphan": the child is killed before its session is parked.
rspi_orphan_kill(w, c, new_ok) ==
  LET cur == Active(w, c)
      new == NextSession(w)
  IN  IF w.poolLock = -1 THEN [w |-> w, res |-> "poisoned"]
      ELSE IF ~new_ok THEN [w |-> w, res |-> "new-failed"]
      ELSE [w |-> [kill(set_is_outputting(w, cur, FALSE), cur) EXCEPT
                      !.sessions[new] = ClientSession_new(w.sessions[cur].path),
                      !.pool = Append(@, cur),
                      !.clients[c].session = new],
            res |-> "orphaned"]

\* Mutant of "orphan": the session is pushed before its replacement is
\* constructed, and stays pushed when the construction fails.
rspi_orphan_push_first(w, c, new_ok) ==
  LET cur == Active(w, c)
      new == NextSession(w)
      w1  == [set_is_outputting(w, cur, FALSE) EXCEPT !.pool = Append(@, cur)]
  IN  IF w.poolLock = -1 THEN [w |-> w, res |-> "poisoned"]
      ELSE IF ~new_ok THEN [w |-> w1, res |-> "new-failed"]
      ELSE [w |-> [w1 EXCEPT
                      !.sessions[new] = ClientSession_new(w.sessions[cur].path),
                      !.clients[c].session = new],
            res |-> "orphaned"]

\* Mutant of "orphan": the session is parked with its outputting flag as it
\* was.
rspi_orphan_keeps_outputting(w, c, new_ok) ==
  LET cur == Active(w, c)
      new == NextSession(w)
  IN  IF w.poolLock = -1 THEN [w |-> w, res |-> "poisoned"]
      ELSE IF ~new_ok THEN [w |-> w, res |-> "new-failed"]
      ELSE [w |-> [w EXCEPT
                      !.sessions[new] = ClientSession_new(w.sessions[cur].path),
                      !.pool = Append(@, cur),
                      !.clients[c].session = new],
            res |-> "orphaned"]

\* Mutant of "orphan": the replacement session starts in the server's
\* working directory instead of the orphaned session's path.
rspi_orphan_root_path(w, c, new_ok) ==
  LET cur == Active(w, c)
      new == NextSession(w)
  IN  IF w.poolLock = -1 THEN [w |-> w, res |-> "poisoned"]
      ELSE IF ~new_ok THEN [w |-> w, res |-> "new-failed"]
      ELSE [w |-> [set_is_outputting(w, cur, FALSE) EXCEPT
                      !.sessions[new] = ClientSession_new("/"),
                      !.pool = Append(@, cur),
                      !.clients[c].session = new],
            res |-> "orphaned"]

\* "orphan": new_ok is whether ClientSession::new succeeds.
rspi_orphan(w, c, new_ok) ==
  LET cur == Active(w, c)
      new == NextSession(w)
  IN  IF w.poolLock = -1 THEN [w |-> w, res |-> "poisoned"]
      ELSE IF ~new_ok THEN [w |-> w, res |-> "new-failed"]
      ELSE [w |-> [set_is_outputting(w, cur, FALSE) EXCEPT
                      !.sessions[new] = ClientSession_new(w.sessions[cur].path),
                      !.pool = Append(@, cur),
                      !.clients[c].session = new],
            res |-> "orphaned"]

\* "procs": only reads the pool (or reports that it cannot).
rspi_procs(w, c) ==
  IF w.poolLock = -1 THEN [w |-> w, res |-> "poisoned"]
  ELSE [w |-> w, res |-> "listed"]

\* Client::do_rspi_process_cmds
do_rspi_process_cmds(w, c, msg, new_ok) ==
  CASE msg.k = "procs" -> rspi_procs(w, c)
    [] msg.k = "adopt" -> rspi_adopt(w, c, msg.idx, msg.name)
    [] msg.k \in {"orphan", "orphan2"} -> rspi_orphan(w, c, new_ok)
    [] OTHER -> [w |-> w, res |-> "help"]

Did(op, r) == [w |-> r.w, op |-> op, res |-> r.res]
RspiOp(msg) == IF msg.k = "orphan2" THEN "orphan" ELSE msg.k

\* Client::run, the first half of a loop iteration: the message is read and
\* acted on.  op names what was done with it, res the outcome.
dispatch(w, c, msg, ok, fatal) ==
  LET s == Active(w, c)
  IN
  IF has_child(w.sessions[s])
  THEN LET w1 == [w EXCEPT !.clients[c].running_process = TRUE]
       IN  IF msg.k = "sig"
           THEN [w |-> signal(w1, s, fatal).w, op |-> "signal", res |-> ""]
           ELSE IF msg.k = "orphan"
           THEN Did("orphan", do_rspi_process_cmds(w1, c, msg, ok))
           ELSE [w |-> w1, op |-> "write_stdin", res |-> write_stdin(w1, s).res]
  ELSE IF msg.k = "sig"
  THEN [w |-> w, op |-> "break", res |-> "break"]
  ELSE IF msg.k \in {"orphan2", "procs", "adopt", "help"}
  THEN Did(RspiOp(msg), do_rspi_process_cmds(w, c, msg, ok))
  ELSE LET cmd == IF msg.k = "orphan" THEN [name |-> "rspi", arg |-> "orphan"]
                  ELSE msg.cmd
           r   == run_command(w, s, cmd, ok)
       IN  IF r.res = "Ok"
           THEN [w |-> [r.w EXCEPT !.clients[c].running_process = TRUE],
                 op |-> "run_command", res |-> "Ok"]
           ELSE [w |-> r.w, op |-> "run_command", res |-> r.res]

\* Client::run, the second half of a loop iteration: forward the output; if
\* there was none and a process was running, look for its exit status.
poll(w, c) ==
  LET s == Active(w, c)
      r == read_output(w.sessions[s].output, << >>)
  IN  IF r.res = "Ok"
      THEN [w EXCEPT !.sessions[s].output = r.output]
      ELSE IF w.clients[c].running_process
      THEN LET e == exit_status(w, s)
           IN  IF e.status # 0 \/ ~has_child(e.w.sessions[s])
               THEN [e.w EXCEPT !.clients[c].running_process = FALSE]
               ELSE e.w
      ELSE w

\* Mutant of the teardown: the children of the pooled sessions are killed
\* along with the connection's own.
teardown_kills_pool(w, c) ==
  [close_drop(kill(w, Active(w, c)), Active(w, c)) EXCEPT
     !.clients[c].st = "closing",
     !.clients[c].running_process = FALSE,
     !.procs = [p \in Pids |->
                  IF /\ w.procs[p].st = "running"
                     /\ \E i \in 1..Len(w.pool) : w.pool[i] = w.procs[p].tty
                  THEN [w.procs[p] EXCEPT !.st = "zombie"]
                  ELSE @[p]]]

\* After the loop: self.session.kill(), then close up to the join.
teardown(w, c) ==
  [close_drop(kill(w, Active(w, c)), Active(w, c)) EXCEPT
     !.clients[c].st = "closing",
     !.clients[c].running_process = FALSE]

\* -------------------------------------------------------------------- Spec
\* Connections served concurrently over one shared pool.
\* last.tick counts the messages handled so far.  When the latest of them
\* was given to do_rspi_process_cmds, last holds the command (op, arg) and
\* its outcome (res); for any other message it only says so.
Handled(op, arg, res) ==
  last' = IF op \in {"adopt", "orphan", "procs", "help"}
          THEN [NoCall EXCEPT !.op = op, !.arg = arg, !.res = res,
                              !.tick = last.tick + 1]
          ELSE [NoCall EXCEPT !.op = "line", !.tick = last.tick + 1]

\* main accepts a connection and Client::new succeeds; a failed password or
\* a failed ClientSession::new leaves nothing behind.
Connect(c) ==
  /\ clients[c].st = "none"
  /\ FreeSessions(World) # {}
  /\ LET new == NextSession(World)
     IN  /\ sessions' = [sessions EXCEPT ![new] = ClientSession_new("/")]
         /\ clients' = [clients EXCEPT ![c] =
                          [NoClient EXCEPT !.st = "run", !.session = new]]
  /\ UNCHANGED <<procs, emitted, sink, caller, last, pool, poolLock, bufVars>>

MsgArg(msg) ==
  CASE msg.k = "adopt" -> IF msg.idx # -1 THEN ToString(msg.idx) ELSE msg.name
    [] msg.k = "cmd" -> msg.cmd.name
    [] OTHER -> ""

\* One iteration of the loop of Client::run with a message received.
Handle(c, msg, ok, fatal) ==
  /\ clients[c].st = "run"
  /\ last.tick < MaxMsgs
  /\ \* a spawn or a new session needs an unused id
     LET cur == sessions[clients[c].session]
     IN  /\ (msg.k \in {"cmd", "orphan"} /\ ~has_child(cur) /\ ok)
              => NextPid(World) \in 1..PoolProcs
         /\ (msg.k \in {"orphan", "orphan2"} /\ ok) => FreeSessions(World) # {}
         \* the pool commands wait for the pool mutex
         /\ (msg.k \in {"orphan", "orphan2", "procs", "adopt"}) => poolLock \in {0, -1}
  /\ LET d == dispatch(World, c, msg, ok, fatal)
     IN  /\ Handled(d.op, MsgArg(msg), d.res)
         /\ IF d.res = "break"
            THEN Commit(teardown(d.w, c))
            ELSE IF d.res \in {"panic", "adopted"}
            THEN Commit(d.w)
            ELSE /\ d.w.sessions[Active(d.w, c)].lock = "free"
                 /\ Commit(poll(d.w, c))
  /\ UNCHANGED <<emitted, sink, caller, bufVars>>

\* One iteration of the loop with no message (the read timed out).
Idle(c) ==
  /\ clients[c].st = "run"
  /\ sessions[clients[c].session].lock = "free"
  /\ Commit(poll(World, c))
  /\ UNCHANGED <<emitted, sink, caller, last, bufVars>>

\* The connection ends (a read of 0 bytes, or a read error): leave the loop.
Disconnect(c) ==
  /\ clients[c].st = "run"
  /\ Commit(teardown(World, c))
  /\ UNCHANGED <<emitted, sink, caller, last, bufVars>>

\* old_session.close() returns inside "adopt": the adopted session is set
\* outputting, the pool mutex is released, and the iteration goes on.
AdoptJoin(c) ==
  /\ clients[c].st = "join"
  /\ sessions[clients[c].old].reader = "done"
  /\ LET w1 == [set_is_outputting(World, clients[c].session, TRUE) EXCEPT
                  !.sessions[clients[c].old] = Freed,
                  !.clients[c].st = "run",
                  !.clients[c].old = 0,
                  !.clients[c].running_process = TRUE,
                  !.poolLock = 0]
     IN  /\ w1.sessions[Active(w1, c)].lock = "free"
         /\ Commit(poll(w1, c))
  /\ UNCHANGED <<emitted, sink, caller, last, bufVars>>

\* self.session.close() returns after the loop: the handler thread ends.
CloseJoin(c) ==
  /\ clients[c].st = "closing"
  /\ sessions[clients[c].session].reader = "done"
  /\ clients' = [clients EXCEPT ![c] = [NoClient EXCEPT !.st = "gone"]]
  /\ sessions' = [sessions EXCEPT ![clients[c].session] = Freed]
  /\ UNCHANGED <<procs, emitted, sink, caller, last, pool, poolLock, bufVars>>

Next ==
  \/ \E c \in ClientIds : Connect(c)
  \/ \E c \in ClientIds, msg \in Msgs :
       \E ok \in IF msg.k \in {"cmd", "orphan", "orphan2"} THEN BOOLEAN ELSE {TRUE},
          fatal \in IF msg.k = "sig" THEN BOOLEAN ELSE {TRUE} :
         Handle(c, msg, ok, fatal)
  \/ \E c \in ClientIds : Idle(c)
  \/ \E c \in ClientIds : Disconnect(c)
  \/ \E c \in ClientIds : AdoptJoin(c)
  \/ \E c \in ClientIds : CloseJoin(c)
  \/ \E s \in SessionIds : Reader(s)
  \/ \E p \in Pids : ChildEmit(p, PoolOut)
  \/ \E p \in Pids : ChildExit(p)

Init == InitBuf

Spec == Init /\ [][Next]_vars

\* ================================================================ claims

\* The sessions in the pool, and the connections whose handler is running.
Pooled == {pool[i] : i \in 1..Len(pool)}
Serving == {c \in ClientIds : clients[c].st \in {"run", "join"}}

\* The step handles an "rspi adopt <arg>" whose target is not in the pool: an
\* index that is not below the pool's size, or a name no pooled session has.
AdoptsAbsent ==
  /\ last'.tick # last.tick
  /\ last'.op = "adopt"
  /\ \/ \E i \in 0..(MaxSessions - 1) : last'.arg = ToString(i) /\ i >= Len(pool)
     \/ last'.arg \in AdoptNames \ {""} /\ position(World, last'.arg) = -1

\* C1: adopting a target that is absent from the pool (an index >= the pool's
\* size, or a name matching no pooled session) fails with not-found: the pool
\* is unchanged, every connection keeps its active session, and the handler
\* keeps running.
C1_AbsentAdoptIsNotFound ==
  [][AdoptsAbsent =>
       /\ last'.res = "not-found"
       /\ pool' = pool
       /\ \A c \in ClientIds : /\ clients'[c].session = clients[c].session
                               /\ clients'[c].st = clients[c].st]_vars

Owners(s) ==
  Cardinality({c \in Serving : clients[c].session = s})
  + Cardinality({i \in 1..Len(pool) : pool[i] = s})

\* C2: in every reachable state each live session has exactly one owner (the
\* active session of exactly one connection, or exactly one position of the
\* pool), every owned session is live, and every running child belongs to a
\* live session that holds its handle.
C2_ExactlyOneOwner ==
  /\ \A s \in SessionIds : sessions[s].st = "live" => Owners(s) = 1
  /\ \A c \in Serving : sessions[clients[c].session].st = "live"
  /\ \A s \in Pooled : sessions[s].st = "live"
  /\ \A p \in Pids : procs[p].st = "running" =>
       /\ sessions[procs[p].tty].st = "live"
       /\ sessions[procs[p].tty].process = p

\* An adopt has completed: a connection runs a session with a running child
\* that it took out of the pool, and the pool is empty again.
C2_Witness ==
  /\ last.op = "adopt" /\ last.res = "adopted"
  /\ pool = << >>
  /\ \E c \in ClientIds :
       /\ clients[c].st = "run"
       /\ sessions[clients[c].session].outputting
       /\ sessions[clients[c].session].process # 0
       /\ procs[sessions[clients[c].session].process].st = "running"

\* C3: a step that moves a session into the pool (orphan) or out of it (adopt)
\* leaves the session as it was, but for the outputting flag that orphan
\* clears, and leaves every child process as it was: nothing is killed,
\* signalled or reaped, the pty and the reader are kept, and the process
\* handle, stdin handle, command name, path and buffered output are the same.
C3_MoveLeavesSessionAlone ==
  [][\A s \in SessionIds :
       /\ (s \notin Pooled /\ s \in {pool'[i] : i \in 1..Len(pool')}) =>
            /\ sessions'[s] = [sessions[s] EXCEPT !.outputting = FALSE]
            /\ procs' = procs
       /\ (s \in Pooled /\ s \notin {pool'[i] : i \in 1..Len(pool')}) =>
            /\ sessions'[s] = sessions[s]
            /\ procs' = procs]_vars

\* A session was orphaned with its child running and output in its buffer.
C3_Witness ==
  /\ last.op = "orphan" /\ last.res = "orphaned"
  /\ \E s \in Pooled :
       /\ sessions[s].process # 0
       /\ procs[sessions[s].process].st = "running"
       /\ CircularBuffer_len(sessions[s].output) > 0
       /\ ~sessions[s].outputting

LastN(s, n) == SubSeq(s, Len(s) - n + 1, Len(s))
IsPrefix(p, s) == Len(p) <= Len(s) /\ p = SubSeq(s, 1, Len(p))

\* C4: after writes totalling more than N accepted bytes with no drain in
\* between, a full drain (here: by read calls only) returns exactly the last
\* N bytes written, in order.  Stated as the claim; the code violates it.
C4_OverflowDrainIsLastN ==
  ( /\ cb.len = 0
    /\ ~cbEpoch.mixed
    /\ cbEpoch.kinds = {"read"}
    /\ Len(cbEpoch.wr) > BufN )
  => cbEpoch.rd = LastN(cbEpoch.wr, BufN)

\* C5: from an empty buffer at any head, writes totalling at most N bytes
\* followed by read calls: the reads return the written bytes in order (the
\* bytes returned so far are a prefix of the bytes written, what is left is
\* the rest, so a complete drain returns the whole concatenation), and each
\* read removes min(length, slice size) bytes.
C5_DrainReturnsWritten ==
  ( /\ ~cbEpoch.mixed
    /\ cbEpoch.kinds \subseteq {"read"}
    /\ Len(cbEpoch.wr) <= BufN )
  => /\ IsPrefix(cbEpoch.rd, cbEpoch.wr)
     /\ cb.len = Len(cbEpoch.wr) - Len(cbEpoch.rd)
     /\ (cb.len = 0 => cbEpoch.rd = cbEpoch.wr)
     /\ (cbLast.op = "read" /\ cbLast.res = "Ok"
           => /\ Len(cbLast.out) = Min(cbLast.before.len, cbLast.n)
              /\ cb.len = cbLast.before.len - Len(cbLast.out))

\* C5 witness: a full buffer that started at a non-zero head was drained
\* completely by several reads, the last of which crossed the wrap point.
C5_Witness ==
  /\ cbLast.op = "read" /\ cbLast.res = "Ok"
  /\ cb.len = 0
  /\ ~cbEpoch.mixed /\ cbEpoch.kinds = {"read"}
  /\ Len(cbEpoch.wr) = BufN /\ cbEpoch.rd = cbEpoch.wr
  /\ Len(cbLast.out) < BufN
  /\ cbLast.before.head + cbLast.before.len > BufN

\* C6: draining an empty buffer yields the error (WouldBlock from read,
\* UnexpectedEof from read_output), no bytes, and leaves head and len alone.
C6_EmptyDrainIsError ==
  (cbLast.op \in {"read", "read_output"} /\ cbLast.before.len = 0)
  => /\ cbLast.res = (IF cbLast.op = "read" THEN "WouldBlock" ELSE "UnexpectedEof")
     /\ cbLast.out = << >>
     /\ cb.head = cbLast.before.head
     /\ cb.len = cbLast.before.len

\* C6 witness: read_output found the buffer empty after earlier traffic had
\* moved head away from 0.
C6_Witness ==
  /\ cbLast.op = "read_output"
  /\ cbLast.before.len = 0
  /\ cbLast.before.head > 0
  /\ cbLast.res = "UnexpectedEof"

\* The unread contents of a buffer, oldest first: what a read of len bytes
\* returns.
Contents(output) == CircularBuffer_read(output, output.len).buf

\* The bytes the reader of a session still has to hand over: buffer, then
\* accumulation.
Pending(self) == Contents(self.output) \o self.buf

\* The unfinished business of the session under test.
Self == sessions[1]

\* C7: once the child has exited and its status was consumed, polling
\* read_output delivers the child's complete output without any later pty
\* output: when nothing is left in flight (no child, pty drained, reader back
\* at its blocking read, buffer drained, no call under way), every byte the
\* children wrote is in the sink, in order.  Stated as the claim; the code
\* violates it.
C7_Quiet ==
  /\ Self.st = "live"
  /\ Self.process = 0
  /\ \E p \in Pids : procs[p].st = "reaped"
  /\ \A p \in Pids : procs[p].st # "running"
  /\ Self.pty = << >>
  /\ Self.reader = "read"
  /\ Self.lock = "free"
  /\ caller = "idle"
  /\ Self.output.len = 0

C7_CompleteOutputDelivered ==
  C7_Quiet => sink = FreshBytes(0, emitted)

C9_BusyLeavesSessionUntouched ==
  [][ ( /\ last'.tick # last.tick
        /\ last'.op = "run_command"
        /\ Self.process # 0
        /\ procs[Self.process].st = "running" )
      => /\ last'.res = "busy"
         /\ sessions' = sessions
         /\ procs' = procs
    ]_vars

\* C9 witness: "cd .." was refused as busy while the child was running.
C9_Witness ==
  /\ last.op = "run_command"
  /\ last.arg = "cd"
  /\ last.res = "busy"
  /\ Self.process # 0
  /\ procs[Self.process].st = "running"
  /\ Self.path = "/a"

\* C10: exit_status on a running child or an empty slot returns none and
\* changes nothing; on a terminated child it returns the status and clears
\* the slot.  The slot is filled only by run_command (with a running child),
\* and is cleared or refilled only by exit_status or run_command reaping a
\* terminated child; kill and signal leave it alone.
C10_ProcessSlotCycle ==
  [][ LET pid  == Self.process
          pid2 == sessions'[1].process
          call == last'.tick # last.tick
      IN  /\ (call /\ last'.op = "exit_status")
               => IF pid # 0 /\ procs[pid].st = "zombie"
                  THEN /\ last'.status = pid
                       /\ sessions'[1] = [Self EXCEPT !.process = 0]
                       /\ procs' = [procs EXCEPT ![pid].st = "reaped"]
                  ELSE /\ last'.status = 0
                       /\ sessions' = sessions
                       /\ procs' = procs
          /\ (pid # 0 /\ pid2 # pid)
               => /\ call
                  /\ last'.op \in {"exit_status", "run_command"}
                  /\ procs[pid].st = "zombie"
                  /\ procs'[pid].st = "reaped"
          /\ (pid2 # 0 /\ pid2 # pid)
               => /\ call
                  /\ last'.op = "run_command"
                  /\ procs[pid2].st = "none"
                  /\ procs'[pid2].st = "running"
          /\ (call /\ last'.op \in {"kill", "signal"}) => pid2 = pid
    ]_vars

\* C10 witness: the slot went Idle, Running, Exited, Idle twice: the status of
\* the second child, which was killed, has just been consumed by exit_status.
C10_Witness ==
  /\ last.op = "exit_status"
  /\ last.status = 2
  /\ Self.process = 0
  /\ procs[1].st = "reaped"
  /\ procs[2].st = "reaped"
  /\ ~Self.is_running

\* The reader has run its first statement and has not seen end-of-data.
ReaderAlive(self) == self.reader \in {"read", "flush", "locked"}

\* C11: is_running() is true exactly when the session's background reader
\* has started and has not yet observed end-of-data (so no operation on the
\* child process changes it), and has_child() is true exactly when the
\* process slot is occupied.
C11_IsRunningIsReaderLiveness ==
  /\ is_running(Self) <=> ReaderAlive(Self)
  /\ has_child(Self) <=> Self.process \in Pids

\* The step is a call of op on the session (SpecSession, SpecReader).
Calls(op) == last'.tick # last.tick /\ last'.op = op

\* C12: run_command with an empty or blank line fails (with the empty error,
\* or busy while a process is running) and is a no-op in every state: no
\* field of the session changes and an exited, unreaped process keeps its
\* status for a later exit_status().
C12_EmptyCommandIsNoOp ==
  [][(Calls("run_command") /\ last'.arg = "") =>
       /\ last'.res \in {"empty", "busy"}
       /\ sessions' = sessions
       /\ procs' = procs]_vars

\* C13: run_command("cd <dir>") on a session that is not busy spawns no
\* process (has_child() is false afterwards, the command name is unchanged);
\* if <dir> resolves from the current path the path becomes the canonical
\* path, otherwise a filesystem error is returned and the path is unchanged.
C13_CdOnlyMovesPath ==
  \A loc \in Locs, ok \in BOOLEAN :
    LET r == run_command(World, 1, [name |-> "cd", arg |-> loc], ok)
        t == canonicalize(Self.path, loc)
        after == r.w.sessions[1]
    IN  r.res # "busy" =>
          /\ ~has_child(after)
          /\ after.cmd_name = Self.cmd_name
          /\ \A p \in Pids : r.w.procs[p].st = "running" => procs[p].st = "running"
          /\ IF t # "Err"
             THEN r.res = "Ok" /\ after.path = t
             ELSE r.res = "cd-failed" /\ after.path = Self.path

\* A cd that did not resolve was made from /a, reached by an earlier cd, on a
\* session that has run a command.
C13_Witness ==
  /\ last.op = "run_command" /\ last.arg = "cd" /\ last.res = "cd-failed"
  /\ Self.path = "/a"
  /\ Self.cmd_name # "None"
  /\ ~has_child(Self)

\* write_stdin on a session without a process fails with broken-pipe and
\* reaches no child.
StdinFailsWithoutProcess ==
  ~has_child(Self) =>
     /\ write_stdin(World, 1).res = "BrokenPipe"
     /\ write_stdin(World, 1).to = 0

\* C14: write_stdin fails with broken-pipe and forwards nothing whenever the
\* session has no attached process (before any command, and after the exit
\* status was consumed), and the stdin handle is present only while a process
\* is attached.
C14_StdinOnlyWhileAttached ==
  /\ StdinFailsWithoutProcess
  /\ Self.stdin # 0 => has_child(Self)

\* -------------------------------------------------------------- SpecTeardown
\* SpecReader plus the teardown of Client::run, kill() and then close(), begun
\* in any state the session can be in.  The reader thread and the thread
\* tearing down are scheduled; children and further calls are not forced.
TeardownKill ==
  /\ Usable
  /\ Commit(kill(World, 1))
  /\ caller' = "teardown"
  /\ UNCHANGED <<emitted, sink, last, bufVars>>

\* close, first half, after kill: drop(self.term).
TeardownClose ==
  /\ caller = "teardown"
  /\ Commit(close_drop(World, 1))
  /\ caller' = "closing"
  /\ UNCHANGED <<emitted, sink, last, bufVars>>

NextTeardown ==
  \/ NextReader
  \/ TeardownKill
  \/ TeardownClose
  \/ CallCloseJoin

SpecTeardown ==
  /\ InitSession
  /\ [][NextTeardown]_vars
  /\ WF_vars(Reader(1))
  /\ WF_vars(TeardownClose)
  /\ WF_vars(CallCloseJoin)

\* close has returned: the pty is released, the reader saw end-of-data and was
\* joined, and no child of the session is running.
TornDown ==
  /\ caller = "closed"
  /\ Self.st = "closed"
  /\ Self.reader = "done"
  /\ Writers(1) = {}

JustOrphaned ==
  /\ last.op = "orphan" /\ last.res = "orphaned"
  /\ Len(pool) > 0
  /\ has_child(sessions[pool[Len(pool)]])
  /\ \A i \in 1..(Len(pool) - 1) :
       sessions[pool[i]].cmd_name # sessions[pool[Len(pool)]].cmd_name

\* C16: orphan then adopt-by-name is a round trip: when a session running
\* command X was just orphaned and a connection without a process (as the
\* orphaning connection is) next adopts by name X, that connection's active
\* session is the orphaned session again, with has_child() true and command
\* name X, and the pool is what it was before the orphan.
C16_OrphanAdoptRoundTrip ==
  [][(/\ JustOrphaned
      /\ last'.tick # last.tick
      /\ last'.op = "adopt"
      /\ last'.arg = sessions[pool[Len(pool)]].cmd_name) =>
       LET o == pool[Len(pool)]
       IN  /\ last'.res = "adopted"
           /\ \E c \in ClientIds : /\ clients[c].session # o
                                   /\ clients'[c].session = o
                                   /\ clients'[c].st = "join"
           /\ has_child(sessions'[o])
           /\ sessions'[o].cmd_name = sessions[o].cmd_name
           /\ pool' = SubSeq(pool, 1, Len(pool) - 1)]_vars

\* The only connection there is ran sleep, orphaned the session and adopted
\* it back by name; the adopt has completed.
C16_Witness ==
  /\ clients[2].st = "none"
  /\ last.op = "adopt" /\ last.arg = "sleep" /\ last.res = "adopted"
  /\ clients[1].st = "run"
  /\ clients[1].session = 1
  /\ has_child(sessions[1])
  /\ sessions[1].cmd_name = "sleep"
  /\ pool = << >>

\* The step handles an orphan in which ClientSession::new fails.
OrphanFails ==
  /\ last'.tick # last.tick
  /\ last'.op = "orphan"
  /\ last'.res = "new-failed"

\* C17 as stated: when constructing the replacement fails during orphan, the
\* orphaned session has already been pushed and is held in the pool, which is
\* one larger than before.
C17_FailedOrphanParksSession ==
  [][OrphanFails =>
       /\ Len(pool') = Len(pool) + 1
       /\ \E c \in ClientIds : pool'[Len(pool')] = clients[c].session]_vars

\* C17, amended: when constructing the replacement fails during orphan the
\* session is not lost because nothing was moved: the pool is unchanged, every
\* connection keeps its active session and keeps running, no session is
\* released, no outputting flag changes and every running child keeps running,
\* attached to its session.  (The poll that ends the loop iteration may
\* forward output and reap a child that had already exited.)
C17_FailedOrphanMovesNothing ==
  [][OrphanFails =>
       /\ pool' = pool
       /\ poolLock' = poolLock
       /\ \A c \in ClientIds : /\ clients'[c].session = clients[c].session
                               /\ clients'[c].st = clients[c].st
       /\ \A s \in SessionIds : /\ sessions'[s].st = sessions[s].st
                                /\ sessions'[s].outputting = sessions[s].outputting
       /\ \A p \in Pids : procs[p].st = "running" =>
            /\ procs'[p] = procs[p]
            /\ sessions'[procs[p].tty].process = p]_vars

\* An orphan failed on a connection whose session has a running child.
C17_Witness ==
  /\ last.op = "orphan" /\ last.res = "new-failed"
  /\ pool = << >>
  /\ \E c \in ClientIds :
       /\ clients[c].st = "run"
       /\ has_child(sessions[clients[c].session])
       /\ procs[sessions[clients[c].session].process].st = "running"

\* C18: failures stay local to one session: whatever operation failed on any
\* connection, the shared pool's lock stays usable (it is never poisoned), so
\* no connection's procs, adopt or orphan is ever refused for it.
C18_PoolStaysUsable ==
  /\ poolLock # -1
  /\ last.res # "poisoned"

\* Connection c ends in this step: it leaves its loop (kill, then close up to
\* the join), its close returns, or its handler thread dies.
Ends(c) ==
  \/ clients[c].st = "run" /\ clients'[c].st \in {"closing", "panicked"}
  \/ clients[c].st = "closing" /\ clients'[c].st = "gone"

\* C19: when a connection ends, only its own active session is killed and
\* closed: the pool is unchanged, every pooled session is exactly as it was
\* (child attached, reader running), no child of another session changes
\* state and no other session is released.
C19_EndingLeavesPoolAlone ==
  [][\A c \in ClientIds : Ends(c) =>
       /\ pool' = pool
       /\ \A s \in Pooled : sessions'[s] = sessions[s]
       /\ \A s \in SessionIds \ {clients[c].session} :
            sessions'[s].st = sessions[s].st
       /\ \A p \in Pids : procs[p].tty # clients[c].session =>
            procs'[p] = procs[p]]_vars

\* The only connection there was has gone; the session it orphaned is still
\* in the pool with its child running and its reader reading.
C19_Witness ==
  /\ clients[1].st = "gone"
  /\ clients[2].st = "none"
  /\ Len(pool) = 1
  /\ has_child(sessions[pool[1]])
  /\ procs[sessions[pool[1]].process].st = "running"
  /\ ReaderAlive(sessions[pool[1]])

\* C20: in every buffer state (any head, any length, wrapped or not) write_to
\* emits exactly `length` bytes, the unread contents in FIFO order (what a
\* full read would return), and leaves length 0.
C20_WriteToEmitsContents ==
  cbLast.op = "write_to" =>
    /\ Len(cbLast.out) = cbLast.before.len
    /\ cbLast.out = Contents(cbLast.before)
    /\ cb.len = 0

\* 0 <= head < N and 0 <= length <= N.
CursorInRange == cb.head \in 0..(BufN - 1) /\ cb.len \in 0..BufN

\* C21 as stated: head and length stay in range, and while bytes are pending
\* the length is min(N, bytes accepted since the buffer was last drained
\* empty, minus bytes removed by read since then).  (With length 0 both
\* counts are 0.)
C21_LengthIsAcceptedMinusRead ==
  /\ CursorInRange
  /\ cb.len > 0 => cb.len = Min(BufN, Len(cbEpoch.wr) - Len(cbEpoch.rd))

\* C21, amended: after any sequence of calls with slices of any size, head
\* and length stay in range; write accepts min(N, slice) bytes, leaves head
\* alone and makes the length min(N, length before + accepted); read removes
\* min(length, slice) bytes, advancing head by as many modulo N; write_to
\* and a successful read_output leave length 0; a drain of an empty buffer
\* changes nothing.
C21_LengthFollowsEachCall ==
  LET b == cbLast.before
  IN  /\ CursorInRange
      /\ cbLast.op = "write" =>
            /\ cbLast.res = Min(BufN, cbLast.n)
            /\ cb.len = Min(BufN, b.len + cbLast.res)
            /\ cb.head = b.head
      /\ cbLast.op = "read" =>
            /\ Len(cbLast.out) = Min(b.len, cbLast.n)
            /\ cb.len = b.len - Len(cbLast.out)
            /\ b.len > 0 => cb.head = (b.head + Len(cbLast.out)) % BufN
            /\ b.len = 0 => cb.head = b.head
      /\ cbLast.op \in {"write_to", "read_output"} =>
            /\ cb.len = 0
            /\ cb.head = (b.head + b.len) % BufN

\* Writes overflowed a buffer that was not empty, and a read
\* then removed part of what was pending, wrapping head.
C21_Witness ==
  /\ cbLast.op = "read"
  /\ Len(cbEpoch.wr) > BufN + 1
  /\ cb.len \in 1..(BufN - 1)
  /\ cb.head < cbLast.before.head

\* C22: the active session of every connection whose handler is in its loop
\* has outputting=true: from the moment the connection is established, after
\* every orphan (the fresh replacement) and after every adopt (the adopted
\* session, once the adopt has returned).  Stated as the claim; the code
\* violates it.
C22_ActiveSessionIsOutputting ==
  \A c \in ClientIds :
    clients[c].st = "run" => sessions[clients[c].session].outputting

\* C23: every session held in the pool has outputting=false: orphan clears
\* the flag before the push, and adopt sets it only on the session it has
\* removed from the pool.
C23_PooledSessionIsNotOutputting ==
  \A s \in Pooled : ~sessions[s].outputting

\* The only connection there is orphaned its first session, adopted it back
\* (which released the replacement and set the flag) and orphaned it again.
C23_Witness ==
  /\ last.op = "orphan" /\ last.res = "orphaned"
  /\ clients[2].st = "none"
  /\ clients[1].st = "run"
  /\ pool = <<1>>
  /\ \E s \in SessionIds : sessions[s].st = "freed"

\* C24: a successful adopt of pool position i (the index given, or the lowest
\* position whose command name matches the argument ignoring case) removes
\* exactly that session from the pool, keeps the others in order with those
\* after i shifted down by one, makes the removed session the connection's
\* active session and drops the previous active session's terminal; when the
\* adopt returns, the previous session's reader has been joined and the
\* adopted session has outputting=true.
C24_AdoptTakesPositionI ==
  [][\A c \in ClientIds :
       /\ (clients[c].st = "run" /\ clients'[c].st = "join") =>
            \E i \in 1..Len(pool) :
              /\ last'.op = "adopt" /\ last'.res = "adopted"
              /\ \A k \in 0..(MaxSessions - 1) : last'.arg = ToString(k) => i = k + 1
              /\ last'.arg \in AdoptNames =>
                   /\ eq_ignore_ascii_case(sessions[pool[i]].cmd_name, last'.arg)
                   /\ \A j \in 1..(i - 1) :
                        ~eq_ignore_ascii_case(sessions[pool[j]].cmd_name, last'.arg)
              /\ Len(pool') = Len(pool) - 1
              /\ \A j \in 1..(i - 1) : pool'[j] = pool[j]
              /\ \A j \in i..Len(pool') : pool'[j] = pool[j + 1]
              /\ clients'[c].session = pool[i]
              /\ clients'[c].old = clients[c].session
              /\ sessions'[clients[c].session].st = "closed"
       /\ (clients[c].st = "join" /\ clients'[c].st = "run") =>
            /\ clients'[c].session = clients[c].session
            /\ sessions'[clients[c].session].outputting
            /\ sessions[clients[c].old].reader = "done"
            /\ sessions'[clients[c].old].st = "freed"
            /\ pool' = pool]_vars

\* With two sessions parked, "rspi adopt 0" took the first: the second moved
\* down to position 0, the first is active and outputting, and the session
\* that was active has been closed and released.
C24_Witness ==
  /\ last.op = "adopt" /\ last.arg = "0" /\ last.res = "adopted"
  /\ pool = <<2>>
  /\ clients[1].st = "run"
  /\ clients[1].session = 1
  /\ sessions[1].outputting
  /\ sessions[3].st = "freed"

\* The step handles an orphan that succeeds.
OrphanSucceeds ==
  /\ last'.tick # last.tick
  /\ last'.op = "orphan"
  /\ last'.res = "orphaned"

\* A session that was just constructed: no process, no stdin, its own empty
\* pty and buffer, its reader spawned.
IsFresh(self) ==
  /\ self.st = "live"
  /\ ~has_child(self)
  /\ self.stdin = 0
  /\ self.cmd_name = "None"
  /\ self.reader = "start"
  /\ self.pty = << >>
  /\ self.buf = << >>
  /\ self.output = CircularBuffer_new

\* "orphan" applied in the current state by connection c whose active session
\* is at path dir.
OrphanFrom(c, dir) ==
  rspi_orphan([World EXCEPT !.sessions[clients[c].session].path = dir], c, TRUE)

\* C25: a successful orphan appends the connection's active session at the
\* end of the pool (one more element, the others where they were) with
\* outputting=false, and makes a freshly constructed idle session (no
\* process, own pty and reader) the active session, at the orphaned
\* session's path (first conjunct: whatever that path is).
C25_OrphanParksAndReplaces ==
  /\ [](\A c \in ClientIds, dir \in Dirs :
          (clients[c].st = "run" /\ poolLock = 0 /\ FreeSessions(World) # {}) =>
            LET r   == OrphanFrom(c, dir)
                cur == clients[c].session
                new == r.w.clients[c].session
            IN  /\ r.res = "orphaned"
                /\ r.w.pool = Append(pool, cur)
                /\ r.w.sessions[cur] =
                     [sessions[cur] EXCEPT !.path = dir, !.outputting = FALSE]
                /\ new # cur
                /\ IsFresh(r.w.sessions[new])
                /\ r.w.sessions[new].path = dir)
  /\ [][OrphanSucceeds =>
          \E c \in ClientIds :
            LET cur == clients[c].session
                new == clients'[c].session
            IN  /\ clients[c].st = "run" /\ clients'[c].st = "run"
                /\ new # cur
                /\ pool' = Append(pool, cur)
                /\ ~sessions'[cur].outputting
                /\ sessions[new].st = "none"
                /\ IsFresh(sessions'[new])
                /\ sessions'[new].path = sessions[cur].path
                /\ \A o \in ClientIds \ {c} : clients'[o] = clients[o]]_vars

\* A connection orphaned a session with a running child and then the idle
\* replacement: both are parked in that order and a third session is active.
C25_Witness ==
  /\ last.op = "orphan" /\ last.res = "orphaned"
  /\ pool = <<1, 2>>
  /\ has_child(sessions[1])
  /\ procs[sessions[1].process].st = "running"
  /\ clients[1].st = "run"
  /\ clients[1].session = 3
  /\ IsFresh(sessions[3])

\* C28: the reader's write into a session's buffer and read_output's drain
\* of it never run at the same time: the two threads are never both inside
\* their locked sections, the lock is held by exactly the thread that is
\* inside, and every step that changes the buffer is taken by the thread that
\* holds the lock, which is still inside when the change is made.
C28_BufferUnderLock ==
  /\ [](/\ ~(Self.reader = "locked" /\ caller = "read_output")
        /\ Self.lock = "reader" <=> Self.reader = "locked"
        /\ Self.lock = "caller" <=> caller = "read_output")
  /\ [][sessions'[1].output # Self.output =>
          \/ /\ Self.lock = "reader" /\ Self.reader = "locked"
             /\ caller' = caller
          \/ /\ Self.lock = "caller" /\ caller = "read_output"
             /\ sessions'[1].reader = Self.reader
             /\ sessions'[1].buf = Self.buf]_vars

\* The consumer is inside read_output with bytes to drain while the reader,
\* holding bytes of its own, has come to its flush and found the lock taken.
C28_Witness ==
  /\ caller = "read_output"
  /\ Self.lock = "caller"
  /\ CircularBuffer_len(Self.output) > 0
  /\ Self.reader = "read"
  /\ Self.flushed = "would-block"
  /\ Self.buf # << >>

\* C29: the reader of a session runs until close() has destroyed the
\* terminal: while the session is live (whatever happened to its children:
\* exit, kill, signal, reap, a new command) the reader has not ended, and once
\* it has ended it stays ended.
C29_ReaderOutlivesChildren ==
  /\ [](Self.st = "live" => Self.reader # "done")
  /\ [][Self.reader = "done" => sessions'[1].reader = "done"]_vars

\* The first child was killed and reaped and a second command is running:
\* the reader is still going and has moved a byte into the buffer.
C29_Witness ==
  /\ Self.st = "live"
  /\ procs[1].st = "reaped"
  /\ Self.process = 2
  /\ procs[2].st = "running"
  /\ ~Self.is_running
  /\ ReaderAlive(Self)
  /\ Contents(Self.output) = <<1>>

\* While the flag stays true, a reader whose accumulation exceeds the
\* buffer's capacity never writes it: the accumulation only grows.
StallIsPermanent ==
  [][(/\ Self.outputting /\ sessions'[1].outputting
      /\ Len(Self.buf) > allocated_size) =>
       /\ IsPrefix(Self.buf, sessions'[1].buf)
       /\ Contents(sessions'[1].output) \in
            {Contents(Self.output), << >>}]_vars

\* C30: waiting for room under the no-loss policy is never permanent.  For
\* the reader's accumulation to be written once the consumer has drained the
\* buffer it has to fit an empty buffer, so under outputting=true it must
\* never be longer than the capacity (otherwise no drain makes room:
\* StallIsPermanent).  Stated as the claim requires; the code violates it.
C30_RoomComesBack ==
  Self.outputting => Len(Self.buf) <= allocated_size

\* ----------------------------------------------------------------- SpecLocks
\* Connections over the shared pool with every lock acquisition and release
\* of a handler as a step of its own.  A handler's place (clients[c].st):
\*   run     at the top of the loop, about to read the stream
\*   procs   in "procs", holding the pool mutex, about to write the listing
\*   orphan  in "orphan", holding the pool mutex, about to construct the
\*           replacement session
\*   join    in "adopt", holding the pool mutex, waiting in close()
\*   poll    message handled (or none), about to call read_output
\*   drain   in read_output, holding the session's buffer mutex
\* Adopt is sent by name, so the pool mutex is never poisoned here.
LockMsgs ==
  {[k |-> "orphan"], [k |-> "orphan2"], [k |-> "procs"]}
  \cup {[k |-> "adopt", idx |-> -1, name |-> n] : n \in AdoptNames \ {""}}

\* Whether Client::run hands the message to do_rspi_process_cmds.
IsPoolCmd(c, msg) ==
  IF has_child(sessions[clients[c].session])
  THEN msg.k = "orphan"
  ELSE msg.k \in {"orphan2", "procs", "adopt"}

\* self.processes.lock() in "procs" and "orphan".
PoolLock(c, msg) ==
  /\ clients[c].st = "run"
  /\ msg.k \in {"orphan", "orphan2", "procs"}
  /\ IsPoolCmd(c, msg)
  /\ poolLock = 0
  /\ poolLock' = c
  /\ clients' = [clients EXCEPT
        ![c].st = RspiOp(msg),
        ![c].running_process = @ \/ has_child(sessions[clients[c].session])]
  /\ UNCHANGED <<sessions, procs, emitted, sink, caller, last, pool, bufVars>>

\* "procs" with the mutex held: the listing is written to the stream, the
\* guard is dropped.
PoolList(c) ==
  /\ clients[c].st = "procs"
  /\ Commit([rspi_procs(World, c).w EXCEPT !.poolLock = 0, !.clients[c].st = "poll"])
  /\ UNCHANGED <<emitted, sink, caller, last, bufVars>>

\* "orphan" with the mutex held: ClientSession::new, then flag, push and
\* message (or the error message), and the guard is dropped.
PoolOrphan(c, new_ok) ==
  /\ clients[c].st = "orphan"
  /\ new_ok => FreeSessions(World) # {}
  /\ LET w == [World EXCEPT !.clients[c].st = "poll"]
     IN  Commit([rspi_orphan(w, c, new_ok).w EXCEPT !.poolLock = 0])
  /\ UNCHANGED <<emitted, sink, caller, last, bufVars>>

\* "adopt": self.processes.lock(), then either the candidate is taken and
\* the handler waits in old_session.close() with the mutex held, or the
\* not-found message is written and the guard is dropped.
PoolAdopt(c, msg) ==
  /\ clients[c].st = "run"
  /\ msg.k = "adopt"
  /\ IsPoolCmd(c, msg)
  /\ poolLock = 0
  /\ LET r == rspi_adopt(World, c, msg.idx, msg.name)
     IN  IF r.res = "adopted"
         THEN Commit(r.w)
         ELSE Commit([r.w EXCEPT !.clients[c].st = "poll"])
  /\ UNCHANGED <<emitted, sink, caller, last, bufVars>>

\* Mutant of the return from adopt: the pool guard is kept.
PoolAdoptJoin_keeps_guard(c) ==
  /\ clients[c].st = "join"
  /\ sessions[clients[c].old].reader = "done"
  /\ Commit([set_is_outputting(World, clients[c].session, TRUE) EXCEPT
               !.sessions[clients[c].old] = Freed,
               !.clients[c].st = "poll",
               !.clients[c].old = 0,
               !.clients[c].running_process = TRUE])
  /\ UNCHANGED <<emitted, sink, caller, last, bufVars>>

\* old_session.close() returns in "adopt": the flag of the adopted session
\* is set and the pool guard is dropped.
PoolAdoptJoin(c) ==
  /\ clients[c].st = "join"
  /\ sessions[clients[c].old].reader = "done"
  /\ Commit([set_is_outputting(World, clients[c].session, TRUE) EXCEPT
               !.sessions[clients[c].old] = Freed,
               !.clients[c].st = "poll",
               !.clients[c].old = 0,
               !.clients[c].running_process = TRUE,
               !.poolLock = 0])
  /\ UNCHANGED <<emitted, sink, caller, last, bufVars>>

\* A command line, a signal, or no message at all: no pool command.
Line(c, msg, ok, fatal) ==
  /\ clients[c].st = "run"
  /\ msg.k \in {"cmd", "sig"}
  /\ (msg.k = "cmd" /\ ~has_child(sessions[clients[c].session]) /\ ok)
       => NextPid(World) \in 1..PoolProcs
  /\ LET d == dispatch(World, c, msg, ok, fatal)
     IN  IF d.res = "break"
         THEN Commit(teardown(d.w, c))
         ELSE Commit([d.w EXCEPT !.clients[c].st = "poll"])
  /\ UNCHANGED <<emitted, sink, caller, last, bufVars>>

NoMessage(c) ==
  /\ clients[c].st = "run"
  /\ clients' = [clients EXCEPT ![c].st = "poll"]
  /\ UNCHANGED <<sessions, procs, emitted, sink, caller, last, pool, poolLock,
                 bufVars>>

\* read_output: self.output.lock().
PollLock(c) ==
  /\ clients[c].st = "poll"
  /\ sessions[clients[c].session].lock = "free"
  /\ sessions' = [sessions EXCEPT ![clients[c].session].lock = "caller"]
  /\ clients' = [clients EXCEPT ![c].st = "drain"]
  /\ UNCHANGED <<procs, emitted, sink, caller, last, pool, poolLock, bufVars>>

\* read_output with the buffer mutex held: drain to the stream and drop the
\* guard; then the rest of the loop iteration.
PollDrain(c) ==
  /\ clients[c].st = "drain"
  /\ LET w == [World EXCEPT !.sessions[clients[c].session].lock = "free",
                            !.clients[c].st = "run"]
     IN  Commit(poll(w, c))
  /\ UNCHANGED <<emitted, sink, caller, last, bufVars>>

NextLocks ==
  \/ \E c \in ClientIds : Connect(c)
  \/ \E c \in ClientIds, msg \in LockMsgs : PoolLock(c, msg)
  \/ \E c \in ClientIds : PoolList(c)
  \/ \E c \in ClientIds, ok \in BOOLEAN : PoolOrphan(c, ok)
  \/ \E c \in ClientIds, msg \in LockMsgs : PoolAdopt(c, msg)
  \/ \E c \in ClientIds : PoolAdoptJoin(c)
  \/ \E c \in ClientIds, msg \in Msgs :
       \E ok \in IF msg.k = "cmd" THEN BOOLEAN ELSE {TRUE},
          fatal \in IF msg.k = "sig" THEN BOOLEAN ELSE {TRUE} :
         Line(c, msg, ok, fatal)
  \/ \E c \in ClientIds : NoMessage(c)
  \/ \E c \in ClientIds : PollLock(c)
  \/ \E c \in ClientIds : PollDrain(c)
  \/ \E c \in ClientIds : Disconnect(c)
  \/ \E c \in ClientIds : CloseJoin(c)
  \/ \E s \in SessionIds : Reader(s)
  \/ \E p \in Pids : ChildEmit(p, PoolOut)
  \/ \E p \in Pids : ChildExit(p)

SpecLocks == Init /\ [][NextLocks]_vars

\* Handler c holds the pool mutex while it is in an operation that can
\* block: writing the listing to the client stream, constructing a session
\* and its pty, or joining a reader in close().
BlocksUnderPoolLock(c) ==
  /\ poolLock = c
  /\ clients[c].st \in {"procs", "orphan", "join"}

\* C26: the pool lock is held only for the push or the remove itself: no
\* handler holds it while it writes to the client stream, constructs a
\* session, or waits in close() for a reader.  Stated as the claim; the code
\* violates it.
C26_PoolLockOnlyForChange ==
  \A c \in ClientIds : ~BlocksUnderPoolLock(c)

\* The locks handler c holds: 0 for the pool mutex, s for the buffer mutex
\* of session s.
HandlerLocks(c) ==
  (IF poolLock = c THEN {0} ELSE {})
  \cup {s \in SessionIds : /\ sessions[s].lock = "caller"
                           /\ clients[c].st = "drain"
                           /\ clients[c].session = s}

\* C27: no thread holds two locks at once.  A handler holds at most one of
\* the pool mutex and its session's buffer mutex; it holds the pool mutex
\* only inside a pool command and a buffer mutex only inside read_output on
\* its own active session; a reader holds only its own session's buffer
\* mutex, while it is at its write.
C27_OneLockPerThread ==
  /\ \A c \in ClientIds :
       /\ Cardinality(HandlerLocks(c)) <= 1
       /\ poolLock = c => clients[c].st \in {"procs", "orphan", "join"}
  /\ poolLock \in ClientIds \cup {0}
  /\ \A s \in SessionIds :
       /\ sessions[s].lock = "caller" =>
            Cardinality({c \in ClientIds : s \in HandlerLocks(c)}) = 1
       /\ sessions[s].lock = "reader" <=> sessions[s].reader = "locked"

\* Three locks are held by three threads: one handler waits in adopt's
\* close() with the pool mutex, the other is inside read_output on its own
\* session, and a reader is at its write with its buffer mutex.
C27_Witness ==
  \E c, o \in ClientIds, s \in SessionIds :
    /\ clients[c].st = "join" /\ poolLock = c
    /\ clients[o].st = "drain" /\ HandlerLocks(o) = {clients[o].session}
    /\ s # clients[o].session
    /\ sessions[s].lock = "reader"

\* C31: the exit status of every terminated child is handed to the caller
\* exactly once: a step reaps a process only as an exit_status or run_command
\* call that returns that process's status, and such a call returns a status
\* only for the process it reaps.  (So a run_command that returns an error
\* reaps nothing.)  Stated as the claim; the code violates it.
C31_StatusHandedExactlyOnce ==
  [][\A p \in Pids :
       /\ (procs[p].st # "reaped" /\ procs'[p].st = "reaped") =>
            /\ last'.tick # last.tick
            /\ last'.op \in {"exit_status", "run_command"}
            /\ last'.status = p
       /\ (/\ last'.tick # last.tick
           /\ last'.op \in {"exit_status", "run_command"}
           /\ last'.status = p) =>
            /\ procs[p].st = "zombie"
            /\ procs'[p].st = "reaped"
            /\ Self.process = p]_vars

\* A session stays parked over the step with its process slot as it was.
ParkedKeepsProcess ==
  [][\A s \in Pooled :
       s \in {pool'[i] : i \in 1..Len(pool')} =>
         sessions'[s].process = sessions[s].process]_vars

\* C32: every session in the pool has an attached process: orphan is carried
\* out only on a session that has one, and a parked session keeps it.
\* Stated as the claim; the code violates it.
C32_PooledSessionHasChild ==
  \A s \in Pooled : has_child(sessions[s])

====
